---------------------------- MODULE Spec2Model ----------------------------
(***************************************************************************)
(* A model of the notebook download_satellite_data.ipynb.                  *)
(*                                                                         *)
(* The notebook is a sequence of code cells run by one Python kernel.  The *)
(* state is the kernel's global namespace (the names the cells assign),    *)
(* the local destination directory, and the exception (if any) the cell    *)
(* run last ended with.  Every code cell is one action.  A cell that       *)
(* raises stops at the raising statement: the assignments made before it   *)
(* stay, the ones after it do not happen, and the kernel lives on, so any  *)
(* cell may be run next.                                                   *)
(*                                                                         *)
(* Python strings are sequences of one-character strings, so that slicing, *)
(* splitting, padding and comparison are computed, not assumed.            *)
(*                                                                         *)
(* Init is the state after the cells of Steps 1.1, 1.2 and 2.1 (imports,   *)
(* directory_path = Path.cwd(), fs = S3FileSystem(anon=True)).  The browse *)
(* cells 2.2.1, 2.3.1, 2.3.2 and 2.3.6 only print and assign names that no *)
(* other cell reads (products, sensors, ...), and so do the loop variables *)
(* file, match; they are left out.  bucket, product, satellite and sensor  *)
(* are assigned by every cell that reads them before it reads them, so     *)
(* they are written as the literals they hold.                             *)
(***************************************************************************)
EXTENDS Integers, Sequences, FiniteSets, TLC

VARIABLES
    year, month, day,       \* Steps 2.2.2, 2.2.3, 2.3.3, 2.3.7
    julian_day,             \* Step 2.2.2
    julian, hour,           \* Step 2.2.3
    data_path,              \* Step 2.2.3
    files_path,             \* Steps 2.3.3, 2.3.7
    files,                  \* Steps 2.2.3, 2.3.3, 2.3.7: the one listing
    observation_time,       \* Steps 2.2.4, 2.3.4
    product_name,           \* Step 2.2.4
    start_time, end_time,   \* Step 2.3.8
    matches,                \* Steps 2.2.4, 2.3.4, 2.3.8: the one result
    file_name,              \* Step 2.4.1
    response,               \* Step 2.4.1
    status_code,            \* Step 2.4.2
    file_size,              \* Step 2.4.3
    full_path,              \* Step 2.4.4
    namespace,              \* the names among files, matches, file_name,
                            \* response that are bound in the kernel
    disk,                   \* the destination directory: path -> bytes
    error,                  \* the exception the cell run last raised
    last,                   \* the cell run last
    listed,                 \* per listing cell, how its latest fs.ls ended
    runs,                   \* the number of cells run in the session
    calls,                  \* the fs.get calls of the download cell run
                            \* last, as they started and ended, in order
    origin,                 \* the listing cell that bound files, and the
                            \* find and listing cells behind matches
    arg                     \* the input of a run of one pure computation

vars == <<year, month, day, julian_day, julian, hour, data_path, files_path,
          files, observation_time, product_name, start_time, end_time,
          matches, file_name, response, status_code, file_size, full_path,
          namespace, disk, error, last, listed, runs, calls, origin,
          arg>>

-----------------------------------------------------------------------------
(* Python str and int operations *)

\* The characters of the keys and file names, in code-point order.
Alphabet ==
    <<"-", ".", "/",
      "0", "1", "2", "3", "4", "5", "6", "7", "8", "9",
      "A", "B", "C", "D", "E", "F", "G", "H", "I", "J", "K", "L", "M",
      "N", "O", "P", "Q", "R", "S", "T", "U", "V", "W", "X", "Y", "Z",
      "_",
      "a", "b", "c", "d", "e", "f", "g", "h", "i", "j", "k", "l", "m",
      "n", "o", "p", "q", "r", "s", "t", "u", "v", "w", "x", "y", "z">>

\* The rank of a character in code-point order.
Ord == [c \in {Alphabet[i] : i \in 1..Len(Alphabet)} |->
            CHOOSE i \in 1..Len(Alphabet) : Alphabet[i] = c]

DigitChars == <<"0", "1", "2", "3", "4", "5", "6", "7", "8", "9">>

Min(a, b) == IF a <= b THEN a ELSE b

\* The decimal digits of n >= 0, most significant first.
RECURSIVE Decimal(_)
Decimal(n) ==
    IF n < 10 THEN <<DigitChars[n + 1]>>
    ELSE Append(Decimal(n \div 10), DigitChars[(n % 10) + 1])

\* str(n) of an int.
Str(n) == IF n < 0 THEN <<"-">> \o Decimal(0 - n) ELSE Decimal(n)

\* '0' * n
RECURSIVE Zeros(_)
Zeros(n) == IF n <= 0 THEN <<>> ELSE <<"0">> \o Zeros(n - 1)

\* A plausible slip: the zeros are put after the digits.
ZfillRight(s, width) ==
    IF Len(s) >= width THEN s ELSE s \o Zeros(width - Len(s))

\* s.zfill(width): s itself when it is already that long; else zeros are
\* put in front, after a leading sign.
Zfill(s, width) ==
    IF Len(s) >= width THEN s
    ELSE IF Len(s) > 0 /\ s[1] \in {"+", "-"}
         THEN <<s[1]>> \o Zeros(width - Len(s)) \o Tail(s)
         ELSE Zeros(width - Len(s)) \o s

\* s.split(sep) for a one-character sep: never empty, empty pieces kept.
RECURSIVE Split(_, _)
Split(s, sep) ==
    IF \A i \in 1..Len(s) : s[i] # sep THEN <<s>>
    ELSE LET i == CHOOSE k \in 1..Len(s) :
                      s[k] = sep /\ \A j \in 1..(k - 1) : s[j] # sep
         IN  <<SubSeq(s, 1, i - 1)>> \o Split(SubSeq(s, i + 1, Len(s)), sep)

\* s[a:b] for 0 <= a <= b: positions a..b-1 counted from 0, cut to the
\* string's length; never an error.
Slice(s, a, b) == SubSeq(s, a + 1, Min(b, Len(s)))

\* s < t and s <= t of two str: by the first character that differs, a
\* proper prefix being the smaller.
\* A plausible slip: the last differing character decides, not the first.
StrLtFromRight(s, t) ==
    LET n == Min(Len(s), Len(t))
        D == {i \in 1..n : s[i] # t[i]}
    IN  IF D = {} THEN Len(s) < Len(t)
        ELSE LET d == CHOOSE i \in D : \A j \in D : j <= i
             IN  Ord[s[d]] < Ord[t[d]]

StrLt(s, t) ==
    LET n == Min(Len(s), Len(t))
        D == {i \in 1..n : s[i] # t[i]}
    IN  IF D = {} THEN Len(s) < Len(t)
        ELSE LET d == CHOOSE i \in D : \A j \in D : i <= j
             IN  Ord[s[d]] < Ord[t[d]]

StrLe(s, t) == s = t \/ StrLt(s, t)

\* lst[-1]
LastOf(lst) == lst[Len(lst)]

\* file.split('/')[-1]
BaseName(file) == LastOf(Split(file, "/"))

-----------------------------------------------------------------------------
(* Step 2.2.2: datetime.datetime(year, month, day).strftime('%j') *)

MINYEAR == 1
MAXYEAR == 9999

\* A plausible slip: the century rule is forgotten.
IsLeapEveryFourth(y) == y % 4 = 0

IsLeap(y) == y % 4 = 0 /\ (y % 100 # 0 \/ y % 400 = 0)

DaysInMonthTable == <<31, 28, 31, 30, 31, 30, 31, 31, 30, 31, 30, 31>>

DaysInMonth(y, m) ==
    IF m = 2 /\ IsLeap(y) THEN 29 ELSE DaysInMonthTable[m]

\* The days of the year before the first of month m.
RECURSIVE DaysBeforeMonth(_, _)
DaysBeforeMonth(y, m) ==
    IF m = 1 THEN 0 ELSE DaysBeforeMonth(y, m - 1) + DaysInMonth(y, m - 1)

\* A plausible slip: the day is checked against 31 whatever the month.
DateFieldsOkAnyMonth(y, m, d) ==
    /\ MINYEAR <= y /\ y <= MAXYEAR
    /\ 1 <= m /\ m <= 12
    /\ 1 <= d /\ d <= 31

\* datetime.datetime(y, m, d) raises ValueError unless this holds.
DateFieldsOk(y, m, d) ==
    /\ MINYEAR <= y /\ y <= MAXYEAR
    /\ 1 <= m /\ m <= 12
    /\ 1 <= d /\ d <= DaysInMonth(y, m)

\* .strftime('%j'): the day of the year as a zero-padded 3-digit number.
StrftimeJ(y, m, d) == Zfill(Str(DaysBeforeMonth(y, m) + d), 3)

-----------------------------------------------------------------------------
(* The kernel *)

ListCells == {"2.2.3", "2.3.3", "2.3.7"}

NoArg == [cell |-> "none"]

FreshKernel ==
    /\ year = 0 /\ month = 0 /\ day = 0
    /\ julian_day = <<>>
    /\ julian = 0 /\ hour = 0
    /\ data_path = <<>>
    /\ files_path = <<>>
    /\ files = <<>>
    /\ observation_time = <<>>
    /\ product_name = <<>>
    /\ start_time = <<>> /\ end_time = <<>>
    /\ matches = <<>>
    /\ file_name = <<>>
    /\ response = [status_code |-> 0, content |-> <<>>,
                   headers |-> [h \in {} |-> <<>>]]
    /\ status_code = 0
    /\ file_size = <<>>
    /\ full_path = <<>>
    /\ namespace = {}
    /\ disk = [p \in {} |-> <<>>]
    /\ runs = 0
    /\ error = "none"
    /\ last = "none"
    /\ listed = [c \in ListCells |-> "never"]
    /\ calls = <<>>
    /\ origin = [files |-> "none", find |-> "none", listing |-> "none"]

\* Step 2.2.2 with the literals y, m, d typed into the cell.
Cell_2_2_2(y, m, d) ==
    /\ year' = y /\ month' = m /\ day' = d
    /\ IF DateFieldsOk(y, m, d)
       THEN julian_day' = StrftimeJ(y, m, d) /\ error' = "none"
       ELSE julian_day' = julian_day /\ error' = "ValueError"
    /\ last' = "2.2.2"
    /\ calls' = <<>>
    /\ UNCHANGED origin
    /\ UNCHANGED <<julian, hour, data_path, files_path, files,
                   observation_time, product_name, start_time, end_time,
                   matches, file_name, response, status_code, file_size,
                   full_path, namespace, disk, listed, arg>>

-----------------------------------------------------------------------------
(* Steps 2.2.3, 2.3.3, 2.3.7: the path of a listing, and fs.ls of it *)

\* bucket + '/' + product + '/' + str(year) + '/' + str(julian).zfill(3)
\*   + '/' + str(hour).zfill(2)
DataPath(y, j, h) ==
    <<"n","o","a","a","-","g","o","e","s","1","6">> \o <<"/">> \o <<"A","B","I","-","L","2","-","M","C","M","I","P","M">> \o <<"/">> \o Str(y) \o <<"/">>
        \o Zfill(Str(j), 3) \o <<"/">> \o Zfill(Str(h), 2)

\* bucket + '/' + satellite + '/' + sensor + '/' + product + '/' + str(year)
\*   + '/' + str(month).zfill(2) + '/' + str(day).zfill(2)
FilesPath(sensor, product, y, m, d) ==
    <<"n","o","a","a","-","j","p","s","s">> \o <<"/">> \o <<"N","O","A","A","2","0">> \o <<"/">> \o sensor \o <<"/">> \o product
        \o <<"/">> \o Str(y) \o <<"/">> \o Zfill(Str(m), 2) \o <<"/">>
        \o Zfill(Str(d), 2)

\* What fs.ls(path) returns for the names the origin holds under path: the
\* keys, each the path, a '/' and the name.
Keys(path, names) == [i \in 1..Len(names) |-> path \o <<"/">> \o names[i]]

\* How a call of fs.ls can end: with the names under the prefix, or raising
\* (no such prefix: FileNotFoundError; no connection: OSError).
LsOk(names) == [result |-> "ok", names |-> names]
LsFailures == {[result |-> e, names |-> <<>>] :
                  e \in {"FileNotFoundError", "OSError"}}

\* files = fs.ls(path), ending as ls says, in the listing cell c.
FsLs(c, path, ls) ==
    /\ IF ls.result = "ok"
       THEN /\ files' = Keys(path, ls.names)
            /\ namespace' = namespace \cup {"files"}
            /\ listed' = [listed EXCEPT ![c] = "ok"]
            /\ origin' = [origin EXCEPT !.files = c]
       ELSE /\ UNCHANGED <<files, namespace, origin>>
            /\ listed' = [listed EXCEPT ![c] = "failed"]
    /\ error' = IF ls.result = "ok" THEN "none" ELSE ls.result
    /\ last' = c
    /\ calls' = <<>>

\* Step 2.2.3 with the literals y, j, h typed into the cell.
Cell_2_2_3(y, j, h, ls) ==
    /\ year' = y /\ julian' = j /\ hour' = h
    /\ data_path' = DataPath(y, j, h)
    /\ FsLs("2.2.3", data_path', ls)
    /\ UNCHANGED <<month, day, julian_day, files_path, observation_time,
                   product_name, start_time, end_time, matches, file_name,
                   response, status_code, file_size, full_path, disk, arg>>

\* Step 2.3.3 with the literals y, m, d typed into the cell.
Cell_2_3_3(y, m, d, ls) ==
    /\ year' = y /\ month' = m /\ day' = d
    /\ files_path' = FilesPath(<<"S","O","U","N","D","I","N","G","S">>, <<"N","O","A","A","2","0","_","N","U","C","A","P","S","-","E","D","R">>, y, m, d)
    /\ FsLs("2.3.3", files_path', ls)
    /\ UNCHANGED <<julian_day, julian, hour, data_path, observation_time,
                   product_name, start_time, end_time, matches, file_name,
                   response, status_code, file_size, full_path, disk, arg>>

\* Step 2.3.7 with the literals y, m, d typed into the cell.
Cell_2_3_7(y, m, d, ls) ==
    /\ year' = y /\ month' = m /\ day' = d
    /\ files_path' =
          FilesPath(<<"V","I","I","R","S">>, <<"N","O","A","A","2","0","_","V","I","I","R","S","_","A","F","_","I","-","B","a","n","d","_","E","D","R","_","N","R","T">>, y, m, d)
    /\ FsLs("2.3.7", files_path', ls)
    /\ UNCHANGED <<julian_day, julian, hour, data_path, observation_time,
                   product_name, start_time, end_time, matches, file_name,
                   response, status_code, file_size, full_path, disk, arg>>

-----------------------------------------------------------------------------
(* Steps 2.2.4, 2.3.4, 2.3.8: the list comprehensions over files *)

FindCells == {"2.2.4", "2.3.4", "2.3.8"}

\* file.split('/')[-1].split('_')[3] raises IndexError on fewer than 4
\* pieces; in Step 2.2.4 the right operand of "and" is evaluated only when
\* the left one is true, and its split('-')[2] raises on fewer than 3.
AbiRaises(file, obs) ==
    LET name == BaseName(file)
    IN  \/ Len(Split(name, "_")) < 4
        \/ /\ Slice(Split(name, "_")[4], 8, 12) = obs
           /\ Len(Split(name, "-")) < 3

JpssRaises(file) == Len(Split(BaseName(file), "_")) < 4

\* A plausible slip: the product name is not compared.
AbiKeepTimeOnly(file, obs, pn) ==
    Slice(Split(BaseName(file), "_")[4], 8, 12) = obs

\* file.split('/')[-1].split('_')[3][8:12] == observation_time and
\* file.split('/')[-1].split('-')[2] == product_name
AbiKeep(file, obs, pn) ==
    LET name == BaseName(file)
    IN  /\ Slice(Split(name, "_")[4], 8, 12) = obs
        /\ Split(name, "-")[3] = pn

\* file.split('/')[-1].split('_')[3][9:16] == observation_time
NucapsKeep(file, obs) ==
    Slice(Split(BaseName(file), "_")[4], 9, 16) = obs

\* A plausible slip: the range is open at its start.
ViirsKeepOpenStart(file, st, en) ==
    LET s == Slice(Split(BaseName(file), "_")[4], 9, 13)
    IN  StrLt(st, s) /\ StrLe(s, en)

\* A plausible slip: a range whose start is after its end is taken to wrap
\* past midnight.
ViirsKeepWrapping(file, st, en) ==
    LET s == Slice(Split(BaseName(file), "_")[4], 9, 13)
    IN  IF StrLe(st, en) THEN StrLe(st, s) /\ StrLe(s, en)
        ELSE StrLe(st, s) \/ StrLe(s, en)

\* A plausible slip: the time is cut from the JPSS token at the offsets of
\* the ABI one.
ViirsKeepAbiSlice(file, st, en) ==
    LET s == Slice(Split(BaseName(file), "_")[4], 8, 12)
    IN  StrLe(st, s) /\ StrLe(s, en)

\* file.split('/')[-1].split('_')[3][9:13] >= start_time and
\* file.split('/')[-1].split('_')[3][9:13] <= end_time
ViirsKeep(file, st, en) ==
    LET s == Slice(Split(BaseName(file), "_")[4], 9, 13)
    IN  StrLe(st, s) /\ StrLe(s, en)

\* The kept elements of lst[lo..hi], in the list's order.  (The stretch is
\* halved rather than walked one by one, which keeps the evaluation of a
\* long listing shallow; the result is that of the walk.)
RECURSIVE SelectRange(_, _, _, _)
SelectRange(lst, keep, lo, hi) ==
    IF lo > hi THEN <<>>
    ELSE IF lo = hi THEN (IF keep[lo] THEN <<lst[lo]>> ELSE <<>>)
    ELSE LET mid == (lo + hi) \div 2
         IN  SelectRange(lst, keep, lo, mid)
                \o SelectRange(lst, keep, mid + 1, hi)

\* A plausible slip: the kept files come out last first.
SelectPrepending(lst, keep) ==
    LET kept == SelectRange(lst, keep, 1, Len(lst))
    IN  [k \in 1..Len(kept) |-> kept[Len(kept) + 1 - k]]

\* [file for file in lst if keep]: the list is walked from its first
\* element, each kept element is appended.
Select(lst, keep) == SelectRange(lst, keep, 1, Len(lst))

\* How the fs.size calls of a find cell can end.
SizeOutcomes == {"none", "OSError"}

\* The end of a find cell c: the name files is unbound (NameError), the
\* comprehension raises (IndexError), or matches is assigned and fs.size is
\* called for each match, which may raise in its turn (sz).
Find(c, raises, result, sz) ==
    /\ IF "files" \notin namespace
       THEN /\ error' = "NameError"
            /\ UNCHANGED <<matches, namespace, origin>>
       ELSE IF raises
       THEN /\ error' = "IndexError"
            /\ UNCHANGED <<matches, namespace, origin>>
       ELSE /\ matches' = result
            /\ namespace' = namespace \cup {"matches"}
            /\ origin' = [origin EXCEPT !.find = c, !.listing = origin.files]
            /\ error' = IF result = <<>> THEN "none" ELSE sz
    /\ last' = c
    /\ calls' = <<>>

\* Step 2.2.4 with the literals obs, pn typed into the cell.
Cell_2_2_4(obs, pn, sz) ==
    /\ observation_time' = obs /\ product_name' = pn
    /\ Find("2.2.4",
            \E i \in 1..Len(files) : AbiRaises(files[i], obs),
            Select(files, [i \in 1..Len(files) |-> AbiKeep(files[i], obs, pn)]),
            sz)
    /\ UNCHANGED <<year, month, day, julian_day, julian, hour, data_path,
                   files_path, files, start_time, end_time, file_name,
                   response, status_code, file_size, full_path, disk,
                   listed, arg>>

\* Step 2.3.4 with the literal obs typed into the cell.
Cell_2_3_4(obs, sz) ==
    /\ observation_time' = obs
    /\ Find("2.3.4",
            \E i \in 1..Len(files) : JpssRaises(files[i]),
            Select(files, [i \in 1..Len(files) |-> NucapsKeep(files[i], obs)]),
            sz)
    /\ UNCHANGED <<year, month, day, julian_day, julian, hour, data_path,
                   files_path, files, product_name, start_time, end_time,
                   file_name, response, status_code, file_size, full_path,
                   disk, listed, arg>>

\* Step 2.3.8 with the literals st, en typed into the cell.
Cell_2_3_8(st, en, sz) ==
    /\ start_time' = st /\ end_time' = en
    /\ Find("2.3.8",
            \E i \in 1..Len(files) : JpssRaises(files[i]),
            Select(files, [i \in 1..Len(files) |-> ViirsKeep(files[i], st, en)]),
            sz)
    /\ UNCHANGED <<year, month, day, julian_day, julian, hour, data_path,
                   files_path, files, observation_time, product_name,
                   file_name, response, status_code, file_size, full_path,
                   disk, listed, arg>>

-----------------------------------------------------------------------------
(* Steps 2.2.5, 2.3.5, 2.3.9: for match in matches: fs.get(match, ...) *)

GetCells == {"2.2.5", "2.3.5", "2.3.9"}

\* directory_path = Path.cwd() (Step 1.2), as a string.
directory_path == <<"/","c","w","d">>

\* str(directory_path / name): the directory itself for an empty name.
PathJoin(dir, name) == IF name = <<>> THEN dir ELSE dir \o <<"/">> \o name

\* A plausible slip: the first segment of the key, the bucket, names the
\* local file.
LocalPathFirstSegment(match) ==
    PathJoin(directory_path, Split(match, "/")[1])

\* str(directory_path / match.split('/')[-1])
LocalPath(match) == PathJoin(directory_path, BaseName(match))

\* The bytes of the object stored under a key: told apart by the key.
ObjectBytes(key) == key

\* The directory d after bytes are written to path, created or truncated.
Put(d, path, bytes) ==
    [p \in (DOMAIN d) \cup {path} |-> IF p = path THEN bytes ELSE d[p]]

\* The directory d after fs.get has copied lst[1], ..., lst[n], in order.
RECURSIVE GetAll(_, _, _)
GetAll(d, lst, n) ==
    IF n = 0 THEN d
    ELSE Put(GetAll(d, lst, n - 1), LocalPath(lst[n]), ObjectBytes(lst[n]))

\* One event of a call of fs.get: it starts, and it returns or raises.
Event(key, ev) == [key |-> key, ev |-> ev]

\* The events of a call of fs.get that raises: nothing catches the
\* exception, which ends the loop and the cell.
GetRaised(key) == <<Event(key, "start"), Event(key, "raised")>>

\* A plausible slip: the calls are all started before any is awaited.
GetLogOverlapping(lst, n) ==
    [k \in 1..n |-> Event(lst[k], "start")]
        \o [k \in 1..n |-> Event(lst[k], "done")]

\* The events of the first n turns of "for match in lst: fs.get(match, ..)":
\* each call returns before the loop takes the next element.
RECURSIVE GetLog(_, _)
GetLog(lst, n) ==
    IF n = 0 THEN <<>>
    ELSE GetLog(lst, n - 1)
            \o <<Event(lst[n], "start"), Event(lst[n], "done")>>

\* The download cell c.  The name matches is unbound (NameError); or the
\* first n calls of fs.get succeed and, when n < len(matches), the next one
\* raises and ends the loop, leaving no file or (partial) a cut one.
Cell_Get(c, n, partial) ==
    /\ IF "matches" \notin namespace
       THEN error' = "NameError" /\ disk' = disk /\ calls' = <<>>
       ELSE /\ n \in 0..Len(matches)
            /\ calls' = IF n < Len(matches)
                        THEN GetLog(matches, n) \o GetRaised(matches[n + 1])
                        ELSE GetLog(matches, n)
            /\ disk' = IF n < Len(matches) /\ partial
                       THEN Put(GetAll(disk, matches, n),
                                LocalPath(matches[n + 1]), <<>>)
                       ELSE GetAll(disk, matches, n)
            /\ error' = IF n < Len(matches) THEN "OSError" ELSE "none"
    /\ last' = c
    /\ UNCHANGED <<year, month, day, julian_day, julian, hour, data_path,
                   files_path, files, observation_time, product_name,
                   start_time, end_time, matches, file_name, response,
                   status_code, file_size, full_path, namespace, listed,
                   origin, arg>>

-----------------------------------------------------------------------------
(* Step 2.4: the web archive *)

AodFileName == <<"v","i","i","r","s","_","e","p","s","_","n","p","p","_","a","o","d","_","0",".","1","0","0","_","d","e","g","_","2","0","2","2","0","9","1","1",".","n","c">>

NoHeaders == [h \in {} |-> <<>>]

\* What requests.get(url + file_name) can return.  The body is read with
\* the call (no stream=True), whatever the status.
Replies ==
    {[status_code |-> 200, content |-> <<"n","e","t","c","d","f">>,
      headers |-> [h \in {"content-length"} |-> <<"6">>]],
     [status_code |-> 200, content |-> <<"n","e","t","c","d","f">>, headers |-> NoHeaders],
     [status_code |-> 404, content |-> <<"n","o","t","f","o","u","n","d","p","a","g","e">>,
      headers |-> [h \in {"content-length"} |-> <<"1","2">>]],
     [status_code |-> 503, content |-> <<>>, headers |-> NoHeaders]}

NoResponse == [status_code |-> 0, content |-> <<>>, headers |-> NoHeaders]

\* How the call can end: with a response, or raising (no connection).
Requests ==
    {[result |-> "ok", response |-> r] : r \in Replies}
        \cup {[result |-> "ConnectionError", response |-> NoResponse]}

\* Step 2.4.1, the request ending as req says.
Cell_2_4_1(req) ==
    /\ file_name' = AodFileName
    /\ IF req.result = "ok"
       THEN /\ response' = req.response
            /\ namespace' = namespace \cup {"file_name", "response"}
       ELSE /\ response' = response
            /\ namespace' = namespace \cup {"file_name"}
    /\ error' = IF req.result = "ok" THEN "none" ELSE req.result
    /\ last' = "2.4.1"
    /\ calls' = <<>>
    /\ UNCHANGED origin
    /\ UNCHANGED <<year, month, day, julian_day, julian, hour, data_path,
                   files_path, files, observation_time, product_name,
                   start_time, end_time, matches, status_code, file_size,
                   full_path, disk, listed, arg>>

\* Step 2.4.2: the status code is read and printed.
Cell_2_4_2 ==
    /\ IF "response" \notin namespace
       THEN status_code' = status_code /\ error' = "NameError"
       ELSE status_code' = response.status_code /\ error' = "none"
    /\ last' = "2.4.2"
    /\ calls' = <<>>
    /\ UNCHANGED origin
    /\ UNCHANGED <<year, month, day, julian_day, julian, hour, data_path,
                   files_path, files, observation_time, product_name,
                   start_time, end_time, matches, file_name, response,
                   file_size, full_path, namespace, disk, listed, arg>>

\* Step 2.4.3: response.headers['content-length']
Cell_2_4_3 ==
    /\ IF "response" \notin namespace
       THEN file_size' = file_size /\ error' = "NameError"
       ELSE IF "content-length" \notin DOMAIN response.headers
       THEN file_size' = file_size /\ error' = "KeyError"
       ELSE /\ file_size' = response.headers["content-length"]
            /\ error' = "none"
    /\ last' = "2.4.3"
    /\ calls' = <<>>
    /\ UNCHANGED origin
    /\ UNCHANGED <<year, month, day, julian_day, julian, hour, data_path,
                   files_path, files, observation_time, product_name,
                   start_time, end_time, matches, file_name, response,
                   status_code, full_path, namespace, disk, listed, arg>>

\* with open(full_path, 'wb') as file: file.write(response.content)
WriteContent(d, path, resp) == Put(d, path, resp.content)

\* Step 2.4.4.  full_path needs file_name; open() creates or truncates the
\* file before response is looked up.
Cell_2_4_4 ==
    /\ IF "file_name" \notin namespace
       THEN /\ UNCHANGED <<full_path, disk>>
            /\ error' = "NameError"
       ELSE /\ full_path' = PathJoin(directory_path, file_name)
            /\ IF "response" \notin namespace
               THEN /\ disk' = Put(disk, full_path', <<>>)
                    /\ error' = "NameError"
               ELSE /\ disk' = WriteContent(disk, full_path', response)
                    /\ error' = "none"
    /\ last' = "2.4.4"
    /\ calls' = <<>>
    /\ UNCHANGED origin
    /\ UNCHANGED <<year, month, day, julian_day, julian, hour, data_path,
                   files_path, files, observation_time, product_name,
                   start_time, end_time, matches, file_name, response,
                   status_code, file_size, namespace, listed, arg>>

-----------------------------------------------------------------------------
(* The names the origins hold *)

\* An ABI-L2-MCMIPM file of Dec 2, 2022 (day 336): sector "1" or "2", start
\* time hhmm.
AbiName(sector, hhmm) ==
    <<"O","R","_","A","B","I","-","L","2","-","M","C","M","I","P","M">> \o sector \o <<"-","M","6","_","G","1","6","_","s","2","0","2","2","3","3","6">> \o hhmm \o <<"2","5","1">>
        \o <<"_","e","2","0","2","2","3","3","6">> \o hhmm \o <<"3","0","8">> \o <<"_","c","2","0","2","2","3","3","6">> \o hhmm \o <<"3","8","5",".","n","c">>

\* A NUCAPS-EDR file of Nov 29, 2022: start time hhmmsst (7 digits).
NucapsName(hhmmsst) ==
    <<"N","U","C","A","P","S","-","E","D","R","_","v","3","r","0","_","j","0","1","_","s","2","0","2","2","1","1","2","9">> \o hhmmsst \o <<"_","e","2","0","2","2","1","1","2","9">> \o hhmmsst
        \o <<"_","c","2","0","2","2","1","1","2","9","2","0","0","3","1","2","0",".","n","c">>

\* A VIIRS AF I-band file: date yyyymmdd, start time hhmm, then sst.
ViirsName(yyyymmdd, hhmm, sst) ==
    <<"A","F","-","I","b","a","n","d","_","v","1","r","0","_","j","0","1","_","s">> \o yyyymmdd \o hhmm \o sst \o <<"_","e">> \o yyyymmdd
        \o hhmm \o <<"5","9","9">> \o <<"_","c","2","0","2","2","1","0","1","6","2","2","0","1","3","1","0",".","n","c">>

MinutesPerHour == 60
Sectors == {<<"1">>, <<"2">>}

\* Step 2.2.4: "120 MCMIPM files each hour: one observation every 1 minute
\* for the two Mesoscale sectors, M1 and M2", here of the hour hh.
FullHour(hh) ==
    [i \in 1..(2 * MinutesPerHour) |->
        AbiName(IF i <= MinutesPerHour THEN <<"1">> ELSE <<"2">>,
                hh \o Zfill(Str((i - 1) % MinutesPerHour), 2))]

\* Names that do not follow the layouts: no '_' at all; 4 '_' pieces but no
\* '-'; a start-time piece that ends before or inside the slice.
NoUnderscore == <<"i","n","d","e","x",".","h","t","m","l">>
NoDash == <<"O","R","_","A","B","I","_","G","1","6","_","s","2","0","2","2","3","3","6","2","0","3","0","2","5","1">>
AbiShortToken == <<"O","R","_","A","B","I","-","L","2","-","M","C","M","I","P","M","2","-","M","6","_","G","1","6","_","s","2","0","2","2","3","3","6">>
AbiPartToken == <<"O","R","_","A","B","I","-","L","2","-","M","C","M","I","P","M","2","-","M","6","_","G","1","6","_","s","2","0","2","2","3","3","6","2","0">>
JpssShortToken == <<"A","F","-","I","b","a","n","d","_","v","1","r","0","_","j","0","1","_","s","2","0","2","2","1","0","1","6">>
JpssPartToken == <<"A","F","-","I","b","a","n","d","_","v","1","r","0","_","j","0","1","_","s","2","0","2","2","1","0","1","6","2","1">>

\* The lists of at most n distinct names of the set pool.
Listings(pool, n) ==
    UNION {{l \in [1..k -> pool] :
               \A i, j \in 1..k : l[i] = l[j] => i = j} : k \in 0..n}

-----------------------------------------------------------------------------
(* The Calendar Resolver alone: one date is drawn, the cell is run on it. *)

YearSpan == 2
LeapCases == {1900, 2000, 2100}
Years == {0, 10000} \cup LeapCases \cup (2022..(2022 + YearSpan))
Months == 0..13
Days == 0..32

InitCalendar ==
    /\ FreshKernel
    /\ arg \in [cell : {"2.2.2"}, year : Years, month : Months, day : Days]

ResolveDate ==
    /\ last = "none"
    /\ Cell_2_2_2(arg.year, arg.month, arg.day)
    /\ UNCHANGED runs

NextCalendar == ResolveDate

SpecCalendar == InitCalendar /\ [][NextCalendar]_vars


(* The calendar as the claims state it, written without the tables above. *)

\* Divisible by 4, and not by 100 unless also by 400.
GregorianLeap(y) ==
    (y % 4 = 0) /\ ((y % 100 = 0) => (y % 400 = 0))

MonthLength(y, m) ==
    IF m \in {4, 6, 9, 11} THEN 30
    ELSE IF m # 2 THEN 31
    ELSE IF GregorianLeap(y) THEN 29 ELSE 28

\* A date of the calendar, in the years datetime represents (1..9999).
RealDate(y, m, d) ==
    /\ y \in 1..9999
    /\ m \in 1..12
    /\ d \in 1..MonthLength(y, m)

\* The days of year y up to and including m/d, counted one by one.
DayOfYear(y, m, d) ==
    Cardinality({md \in (1..12) \X (1..31) :
                    /\ RealDate(y, md[1], md[2])
                    /\ (md[1] < m \/ (md[1] = m /\ md[2] <= d))})

ThreeDigits(n) ==
    <<DigitChars[(n \div 100) + 1],
      DigitChars[((n \div 10) % 10) + 1],
      DigitChars[(n % 10) + 1]>>

\* C8: for every valid (year, month, day) the Calendar Resolver returns
\* exactly 3 decimal digits, the 1-based day of the year under the
\* Gregorian leap rule: "001" for Jan 1, "366" / "365" for Dec 31 of a
\* leap / non-leap year, "336" for (2022, 12, 2).
C8_OrdinalDay ==
    (last = "2.2.2" /\ RealDate(year, month, day)) =>
        /\ error = "none"
        /\ Len(julian_day) = 3
        /\ \A i \in 1..3 : julian_day[i] \in
                              {DigitChars[k] : k \in 1..Len(DigitChars)}
        /\ julian_day = ThreeDigits(DayOfYear(year, month, day))
        /\ (month = 1 /\ day = 1) => julian_day = <<"0","0","1">>
        /\ (month = 12 /\ day = 31) =>
              julian_day = IF GregorianLeap(year) THEN <<"3","6","6">> ELSE <<"3","6","5">>
        /\ (year = 2022 /\ month = 12 /\ day = 2) => julian_day = <<"3","3","6">>

\* Dec 31 of a leap year and of a century non-leap year have been resolved.
C8_Witness ==
    /\ last = "2.2.2" /\ error = "none"
    /\ month = 12 /\ day = 31
    /\ \/ year = 2024 /\ julian_day = <<"3","6","6">>
       \/ year = 2100 /\ julian_day = <<"3","6","5">>

\* C9: for every (year, month, day) that is not a real calendar date the
\* Calendar Resolver fails (datetime's ValueError) and assigns no
\* ordinal-day string; for (2024, 2, 29) it succeeds with "060".
C9_InvalidDate ==
    [][last' = "2.2.2" =>
         /\ ~RealDate(year', month', day') =>
               (error' = "ValueError" /\ julian_day' = julian_day)
         /\ (year' = 2024 /\ month' = 2 /\ day' = 29) =>
               (error' = "none" /\ julian_day' = <<"0","6","0">>)]_vars

\* Feb 29 of a non-leap year has been refused.
C9_Witness ==
    /\ last = "2.2.2" /\ error = "ValueError"
    /\ year = 2023 /\ month = 2 /\ day = 29
    /\ julian_day = <<>>

-----------------------------------------------------------------------------
(* The Key Builder alone: the literals of one listing cell are drawn, the  *)
(* cell is run on them.                                                    *)

\* Values too wide for their segment, among them the 336 of the claim.
TooWide == {100, 336, 1000}
OrdinalDays == 1..366
HoursOfDay == 0..23
MonthsOfYear == 1..12
DaysOfMonth == 1..31

KeyArgs ==
    [cell : {"2.2.3"}, year : {2022}, julian : OrdinalDays \cup TooWide,
     hour : HoursOfDay \cup TooWide,
     ls : {LsOk(<<>>)} \cup LsFailures]
    \cup
    [cell : {"2.3.3", "2.3.7"}, year : {2022},
     month : MonthsOfYear \cup TooWide, day : DaysOfMonth \cup TooWide,
     ls : {LsOk(<<>>)} \cup LsFailures]

InitKey == FreshKernel /\ arg \in KeyArgs

BuildDataPath ==
    /\ last = "none" /\ arg.cell = "2.2.3"
    /\ Cell_2_2_3(arg.year, arg.julian, arg.hour, arg.ls)
    /\ UNCHANGED runs

BuildNucapsPath ==
    /\ last = "none" /\ arg.cell = "2.3.3"
    /\ Cell_2_3_3(arg.year, arg.month, arg.day, arg.ls)
    /\ UNCHANGED runs

BuildViirsPath ==
    /\ last = "none" /\ arg.cell = "2.3.7"
    /\ Cell_2_3_7(arg.year, arg.month, arg.day, arg.ls)
    /\ UNCHANGED runs

NextKey == BuildDataPath \/ BuildNucapsPath \/ BuildViirsPath

SpecKey == InitKey /\ [][NextKey]_vars

IsDigits(s) == \A i \in 1..Len(s) : s[i] \in {DigitChars[k] : k \in 1..10}

\* The number a string of decimal digits denotes.
RECURSIVE NumVal(_)
NumVal(s) ==
    IF s = <<>> THEN 0
    ELSE 10 * NumVal(SubSeq(s, 1, Len(s) - 1))
           + ((CHOOSE k \in 1..10 : DigitChars[k] = s[Len(s)]) - 1)

\* C7: the Key Builder renders each integer segment as decimal digits
\* left-padded with '0' to its width, passes string segments through, and
\* joins with '/': (noaa-goes16, ABI-L2-MCMIPM, 2022, 336, 20) gives
\* "noaa-goes16/ABI-L2-MCMIPM/2022/336/20"; for every ordinal day 1..366 and
\* hour 0..23 (month 1..12, day 1..31 in the JPSS layout) the ordinal-day
\* segment has exactly 3 characters and the hour/month/day segment 2.
C7_KeyLayout ==
    /\ (last = "2.2.3" /\ julian \in 1..366 /\ hour \in 0..23) =>
          LET seg == Split(data_path, "/")
          IN  /\ Len(seg) = 5
              /\ seg[1] = <<"n","o","a","a","-","g","o","e","s","1","6">> /\ seg[2] = <<"A","B","I","-","L","2","-","M","C","M","I","P","M">>
              /\ IsDigits(seg[3]) /\ NumVal(seg[3]) = year
              /\ Len(seg[4]) = 3 /\ IsDigits(seg[4])
              /\ NumVal(seg[4]) = julian
              /\ Len(seg[5]) = 2 /\ IsDigits(seg[5])
              /\ NumVal(seg[5]) = hour
              /\ (year = 2022 /\ julian = 336 /\ hour = 20) =>
                    data_path = <<"n","o","a","a","-","g","o","e","s","1","6","/","A","B","I","-","L","2","-","M","C","M","I","P","M","/","2","0","2","2","/","3","3","6","/","2","0">>
    /\ (last \in {"2.3.3", "2.3.7"} /\ month \in 1..12 /\ day \in 1..31) =>
          LET seg == Split(files_path, "/")
          IN  /\ Len(seg) = 7
              /\ seg[1] = <<"n","o","a","a","-","j","p","s","s">> /\ seg[2] = <<"N","O","A","A","2","0">>
              /\ seg[3] = IF last = "2.3.3" THEN <<"S","O","U","N","D","I","N","G","S">> ELSE <<"V","I","I","R","S">>
              /\ seg[4] = IF last = "2.3.3" THEN <<"N","O","A","A","2","0","_","N","U","C","A","P","S","-","E","D","R">>
                          ELSE <<"N","O","A","A","2","0","_","V","I","I","R","S","_","A","F","_","I","-","B","a","n","d","_","E","D","R","_","N","R","T">>
              /\ IsDigits(seg[5]) /\ NumVal(seg[5]) = year
              /\ Len(seg[6]) = 2 /\ IsDigits(seg[6])
              /\ NumVal(seg[6]) = month
              /\ Len(seg[7]) = 2 /\ IsDigits(seg[7])
              /\ NumVal(seg[7]) = day

\* The key of the tutorial, and a one-digit month of the JPSS layout, have
\* been built.
C7_Witness ==
    \/ /\ last = "2.2.3" /\ julian = 336 /\ hour = 20
       /\ data_path = <<"n","o","a","a","-","g","o","e","s","1","6","/","A","B","I","-","L","2","-","M","C","M","I","P","M","/","2","0","2","2","/","3","3","6","/","2","0">>
    \/ /\ last = "2.3.7" /\ month = 9 /\ day = 5
       /\ files_path =
             <<"n","o","a","a","-","j","p","s","s","/","N","O","A","A","2","0","/","V","I","I","R","S","/","N","O","A","A","2","0","_","V","I","I","R","S","_","A","F","_","I","-","B","a","n","d","_","E","D","R","_","N","R","T","/","2","0","2","2","/","0","9","/","0","5">>

\* C1: the Key Builder fails with PathEncodingError when an integer does
\* not fit its pad width (336 into a 2-digit segment), and never emits a
\* segment wider than the declared width.
C1_PadWidthEnforced ==
    /\ last = "2.2.3" =>
          /\ (julian > 999 \/ hour > 99) => error = "PathEncodingError"
          /\ Len(Split(data_path, "/")[4]) <= 3
          /\ Len(Split(data_path, "/")[5]) <= 2
    /\ last \in {"2.3.3", "2.3.7"} =>
          /\ (month > 99 \/ day > 99) => error = "PathEncodingError"
          /\ Len(Split(files_path, "/")[6]) <= 2
          /\ Len(Split(files_path, "/")[7]) <= 2

-----------------------------------------------------------------------------
(* The Filename Field Extractor and the Match Selector alone: a listing    *)
(* and the literals of its find cell are drawn; the listing cell is run,   *)
(* then the find cell.                                                     *)

MaxListLen == 3

AbiTimes == {<<"2","0","2","9">>, <<"2","0","3","0">>}
AbiPool ==
    {AbiName(sec, t) : sec \in Sectors, t \in AbiTimes}
        \cup {NoUnderscore, NoDash, AbiShortToken, AbiPartToken}

NucapsTimes == {<<"1","9","0","7","2","1","0">>, <<"1","9","0","7","5","1","0">>, <<"1","9","0","8","2","1","0">>}
NucapsPool ==
    {NucapsName(t) : t \in NucapsTimes} \cup {NoUnderscore, JpssShortToken}

ViirsDates == {<<"2","0","2","2","1","0","1","6">>, <<"2","0","2","2","1","0","1","7">>}
ViirsTimes == {<<"2","1","1","5">>, <<"2","1","1","6">>, <<"2","1","1","8">>, <<"2","1","2","0">>, <<"0","0","0","0">>}
ViirsPool ==
    {ViirsName(<<"2","0","2","2","1","0","1","6">>, t, <<"1","9","0">>) : t \in ViirsTimes}
        \cup {ViirsName(<<"2","0","2","2","1","0","1","7">>, <<"2","1","1","6">>, <<"1","9","0">>)}
        \cup {NoUnderscore, JpssPartToken}

\* The listing of the range example: start times 2115, 2116, 2118, 2120.
RangeExample ==
    <<ViirsName(<<"2","0","2","2","1","0","1","6">>, <<"2","1","1","5">>, <<"1","9","0">>),
      ViirsName(<<"2","0","2","2","1","0","1","6">>, <<"2","1","1","6">>, <<"1","9","0">>),
      ViirsName(<<"2","0","2","2","1","0","1","6">>, <<"2","1","1","8">>, <<"1","9","0">>),
      ViirsName(<<"2","0","2","2","1","0","1","6">>, <<"2","1","2","0">>, <<"1","9","0">>)>>

Ranges == {<<<<"2","1","1","6">>, <<"2","1","1","9">>>>, <<<<"2","1","1","6">>, <<"2","1","1","6">>>>, <<<<"2","1","1","5">>, <<"2","1","2","0">>>>,
           <<<<"2","3","5","9">>, <<"0","0","0","1">>>>}

MatchArgs ==
    [cell : {"2.2.4"},
     names : Listings(AbiPool, MaxListLen) \cup {FullHour(<<"2","0">>)},
     obs : {<<"2","0","3","0">>, <<"2","0","3","1">>, <<>>}, pn : {<<"M","C","M","I","P","M","2">>, <<"M","C","M","I","P","M","1">>}]
    \cup
    [cell : {"2.3.4"}, names : Listings(NucapsPool, MaxListLen),
     obs : {<<"1","9","0","7","5","1","0">>, <<"1","9","0","7">>, <<>>}]
    \cup
    [cell : {"2.3.8"},
     names : Listings(ViirsPool, MaxListLen) \cup {RangeExample},
     range : Ranges]

InitMatch == FreshKernel /\ arg \in MatchArgs

ListAbi ==
    /\ last = "none" /\ arg.cell = "2.2.4"
    /\ Cell_2_2_3(2022, 336, 20, LsOk(arg.names))
    /\ UNCHANGED runs

ListNucaps ==
    /\ last = "none" /\ arg.cell = "2.3.4"
    /\ Cell_2_3_3(2022, 11, 29, LsOk(arg.names))
    /\ UNCHANGED runs

ListViirs ==
    /\ last = "none" /\ arg.cell = "2.3.8"
    /\ Cell_2_3_7(2022, 10, 16, LsOk(arg.names))
    /\ UNCHANGED runs

FindAbi ==
    /\ last = "2.2.3"
    /\ \E sz \in SizeOutcomes : Cell_2_2_4(arg.obs, arg.pn, sz)
    /\ UNCHANGED runs

FindNucaps ==
    /\ last = "2.3.3"
    /\ \E sz \in SizeOutcomes : Cell_2_3_4(arg.obs, sz)
    /\ UNCHANGED runs

FindViirs ==
    /\ last = "2.3.7"
    /\ \E sz \in SizeOutcomes : Cell_2_3_8(arg.range[1], arg.range[2], sz)
    /\ UNCHANGED runs

NextMatch ==
    ListAbi \/ ListNucaps \/ ListViirs \/ FindAbi \/ FindNucaps \/ FindViirs

SpecMatch == InitMatch /\ [][NextMatch]_vars

\* The find cell run last has assigned matches.
Found == last \in FindCells /\ error \in SizeOutcomes

\* Lexicographic order, stated directly: equal, or smaller at the first
\* position where the two differ, or a proper prefix.
LexLe(s, t) ==
    \/ s = t
    \/ \E i \in 1..Min(Len(s), Len(t)) :
          /\ \A j \in 1..(i - 1) : s[j] = t[j]
          /\ Ord[s[i]] < Ord[t[i]]
    \/ /\ Len(s) < Len(t)
       /\ \A j \in 1..Len(s) : s[j] = t[j]

InMatches(file) == \E k \in 1..Len(matches) : matches[k] = file

\* C4: the range match is inclusive at both ends: of the files of a
\* listing, exactly those whose 4-character start time s satisfies
\* start_time <= s <= end_time are returned; for start times 2115, 2116,
\* 2118, 2120 and the range 2116..2119 the result is the 2116 and the 2118
\* entry, in listing order.
C4_RangeInclusive ==
    (Found /\ last = "2.3.8") =>
        /\ \A i \in 1..Len(files) : \A d \in ViirsDates : \A t \in ViirsTimes :
              files[i] = files_path \o <<"/">> \o ViirsName(d, t, <<"1","9","0">>) =>
                 (InMatches(files[i]) <=>
                     (LexLe(start_time, t) /\ LexLe(t, end_time)))
        /\ (/\ files = Keys(files_path, RangeExample)
            /\ start_time = <<"2","1","1","6">> /\ end_time = <<"2","1","1","9">>) =>
              matches = <<files[2], files[3]>>

\* The range example has been matched, and a file whose start time equals
\* start_time (and end_time) has been selected.
C4_Witness ==
    /\ Found /\ last = "2.3.8"
    /\ \/ /\ files = Keys(files_path, RangeExample)
          /\ start_time = <<"2","1","1","6">> /\ end_time = <<"2","1","1","9">>
          /\ Len(matches) = 2
       \/ /\ start_time = <<"2","1","1","6">> /\ end_time = <<"2","1","1","6">>
          /\ Len(matches) = 2

\* The predicate of the find cell run last.
Holds(file) ==
    CASE last = "2.2.4" -> AbiKeep(file, observation_time, product_name)
      [] last = "2.3.4" -> NucapsKeep(file, observation_time)
      [] last = "2.3.8" -> ViirsKeep(file, start_time, end_time)

\* C5: for every listing and predicate shape the match result is a
\* subsequence of the listing: every listed key the predicate holds for,
\* no other key, in the listing's order and multiplicity.
C5_OrderedSubset ==
    Found =>
        LET sel == {i \in 1..Len(files) : Holds(files[i])}
            nth(k) == CHOOSE i \in sel :
                         Cardinality({j \in sel : j <= i}) = k
        IN  /\ Len(matches) = Cardinality(sel)
            /\ \A k \in 1..Len(matches) : matches[k] = files[nth(k)]

\* A find has kept two or more files of a longer listing, dropping one that
\* stands before a kept one.
C5_Witness ==
    /\ Found
    /\ Len(matches) >= 2 /\ Len(matches) < Len(files)
    /\ matches[1] # files[1]

\* C6: the ABI match selects a file iff its start time equals the target
\* time and its product code the target code; over the 120 keys of one hour
\* (minutes 00-59 of the sectors MCMIPM1 and MCMIPM2), time "2030" and code
\* "MCMIPM2" select exactly 1 key.
C6_AbiExact ==
    (Found /\ last = "2.2.4") =>
        /\ \A i \in 1..Len(files) : \A sec \in Sectors :
           \A m \in 0..(MinutesPerHour - 1) :
              LET hhmm == <<"2","0">> \o SubSeq(ThreeDigits(m), 2, 3)
              IN  files[i] = data_path \o <<"/">> \o AbiName(sec, hhmm) =>
                     (InMatches(files[i]) <=>
                         (hhmm = observation_time
                            /\ <<"M","C","M","I","P","M">> \o sec = product_name))
        /\ (/\ files = Keys(<<"n","o","a","a","-","g","o","e","s","1","6","/","A","B","I","-","L","2","-","M","C","M","I","P","M","/","2","0","2","2","/","3","3","6","/","2","0">>,
                            FullHour(<<"2","0">>))
            /\ observation_time = <<"2","0","3","0">> /\ product_name = <<"M","C","M","I","P","M","2">>) =>
              matches = <<<<"n","o","a","a","-","g","o","e","s","1","6","/","A","B","I","-","L","2","-","M","C","M","I","P","M","/","2","0","2","2","/","3","3","6","/","2","0","/">>
                            \o AbiName(<<"2">>, <<"2","0","3","0">>)>>

\* The 120 keys of the hour have been matched against 2030 and MCMIPM2.
C6_Witness ==
    /\ Found /\ last = "2.2.4"
    /\ Len(files) = 120
    /\ observation_time = <<"2","0","3","0">> /\ product_name = <<"M","C","M","I","P","M","2">>
    /\ Len(matches) = 1

\* The slice a find cell takes of the start-time piece: [from, to).
SliceOf(c) ==
    CASE c = "2.2.4" -> <<8, 12>>
      [] c = "2.3.4" -> <<9, 16>>
      [] c = "2.3.8" -> <<9, 13>>

\* The name has too few '_' (or, for ABI, '-') pieces, or a start-time
\* piece that ends before the end of the slice.
Malformed(c, file) ==
    LET name == BaseName(file)
    IN  \/ Len(Split(name, "_")) < 4
        \/ c = "2.2.4" /\ Len(Split(name, "-")) < 3
        \/ Len(Split(name, "_")[4]) < SliceOf(c)[2]

\* C2: the Filename Field Extractor fails whenever a file name has fewer
\* '_'- or '-'-delimited pieces than the layout needs or a start-time piece
\* shorter than the slice taken; it never yields a partial or empty
\* start-time substring silently.
C2_MalformedRejected ==
    (last \in FindCells /\ \E i \in 1..Len(files) : Malformed(last, files[i]))
        => error \in {"UnrecognizedFilenameError", "IndexError"}

-----------------------------------------------------------------------------
(* The Retriever after the Match Selector: a listing and the literals of   *)
(* its find cell are drawn as above; the listing cell, the find cell and   *)
(* the download cell are run, and fs.get may raise at any match.           *)

GetAbi ==
    /\ last = "2.2.4"
    /\ \E n \in 0..Len(matches), partial \in BOOLEAN :
          Cell_Get("2.2.5", n, partial)
    /\ UNCHANGED runs

GetNucaps ==
    /\ last = "2.3.4"
    /\ \E n \in 0..Len(matches), partial \in BOOLEAN :
          Cell_Get("2.3.5", n, partial)
    /\ UNCHANGED runs

GetViirs ==
    /\ last = "2.3.8"
    /\ \E n \in 0..Len(matches), partial \in BOOLEAN :
          Cell_Get("2.3.9", n, partial)
    /\ UNCHANGED runs

NextGet == NextMatch \/ GetAbi \/ GetNucaps \/ GetViirs

SpecGet == InitMatch /\ [][NextGet]_vars

\* The keys whose fs.get returned in the download cell run last.
RetrievedKeys == {calls[k].key : k \in {j \in 1..Len(calls) : calls[j].ev = "done"}}

\* path is dir, a '/' and the part of key after its last '/'.
IsDirPlusLastSegment(path, dir, key) ==
    \E i \in 1..Len(key) :
        /\ key[i] = "/"
        /\ \A j \in (i + 1)..Len(key) : key[j] # "/"
        /\ path = dir \o <<"/">> \o SubSeq(key, i + 1, Len(key))

\* C15: every retrieved object is written to the destination directory
\* plus the last '/'-separated segment of its key; the keys of one listing
\* being pairwise distinct under one prefix, no two matches of a selector
\* are written to the same local path, and at the end of a run every file
\* downloaded in it holds the bytes of its own object: none was
\* overwritten by another.
C15_OwnLocalPath ==
    last \in GetCells =>
        /\ \A key \in RetrievedKeys :
              \E path \in DOMAIN disk :
                 /\ IsDirPlusLastSegment(path, <<"/","c","w","d">>, key)
                 /\ disk[path] = ObjectBytes(key)
        /\ \A j, k \in 1..Len(matches) :
              j # k => \A path \in DOMAIN disk :
                         ~(/\ IsDirPlusLastSegment(path, <<"/","c","w","d">>, matches[j])
                           /\ IsDirPlusLastSegment(path, <<"/","c","w","d">>, matches[k]))
        /\ Cardinality(DOMAIN disk) >= Cardinality(RetrievedKeys)

\* A download cell has retrieved two or more files of one listing.
C15_Witness ==
    /\ last \in GetCells /\ error = "none"
    /\ Cardinality(RetrievedKeys) >= 2
    /\ Cardinality(RetrievedKeys) = Len(matches)
    /\ Cardinality(DOMAIN disk) = Len(matches)

-----------------------------------------------------------------------------
(* The range test of Step 2.3.8 alone, on one file: the file's start time  *)
(* runs over the 4-character strings of a few digits, the two literals of  *)
(* the cell over strings of the same width.                                *)

LexDigits == 2

\* The digits of the times: the first LexDigits ones, and the last.
TimeDigits == {DigitChars[k] : k \in 1..LexDigits} \cup {"9"}

FourDigit == [1..4 -> TimeDigits]

LexBounds == {<<"0","0","0","0">>, <<"0","0","0","9">>, <<"0","1","0","0">>, <<"0","9","9","1">>, <<"1","0","0","0">>, <<"1","1","1","1">>,
              <<"9","0","1","0">>, <<"9","9","9","9">>}

LexArgs ==
    {[cell |-> "2.3.8", time |-> t,
      names |-> <<ViirsName(<<"2","0","2","2","1","0","1","6">>, t, <<"1","9","0">>)>>,
      range |-> <<st, en>>] : t \in FourDigit, st \in LexBounds,
                               en \in LexBounds}

InitLex == FreshKernel /\ arg \in LexArgs

NextRange == ListViirs \/ FindViirs

SpecLex == InitLex /\ [][NextRange]_vars

\* C14: for start-time substrings and range bounds that are digit strings
\* of the same width 4, the range test of strings (start <= s and
\* s <= end) gives the result of the range test of the integers they
\* denote.
C14_LexIsNumeric ==
    (Found /\ last = "2.3.8") =>
        /\ IsDigits(arg.time) /\ IsDigits(start_time) /\ IsDigits(end_time)
        /\ Len(arg.time) = 4 /\ Len(start_time) = 4 /\ Len(end_time) = 4
        /\ matches \in {<<>>, files}
        /\ matches = files
              <=> /\ NumVal(start_time) <= NumVal(arg.time)
                  /\ NumVal(arg.time) <= NumVal(end_time)

\* A file is selected whose start time differs from both bounds in its
\* first digit and in its last, the later digits being in the other order
\* than the numbers.
C14_Witness ==
    /\ Found /\ last = "2.3.8"
    /\ matches = files /\ Len(files) = 1
    /\ start_time = <<"0","9","9","1">> /\ arg.time = <<"1","0","0","0">> /\ end_time = <<"9","0","1","0">>

-----------------------------------------------------------------------------
(* The range test of Step 2.3.8 around midnight: listings of files of two  *)
(* consecutive days, ranges that wrap and ranges that do not.              *)

WrapTimes == {<<"2","3","5","9">>, <<"0","0","0","0">>, <<"0","0","0","1">>, <<"2","1","1","6">>}
WrapPool == {ViirsName(d, t, <<"1","9","0">>) : d \in ViirsDates, t \in WrapTimes}
WrapRanges == {<<<<"2","3","5","9">>, <<"0","0","0","1">>>>, <<<<"2","1","1","6">>, <<"0","0","0","1">>>>,
               <<<<"0","0","0","1">>, <<"0","0","0","0">>>>, <<<<"0","0","0","0">>, <<"0","0","0","1">>>>,
               <<<<"2","1","1","6">>, <<"2","3","5","9">>>>, <<<<"0","0","0","0">>, <<"2","3","5","9">>>>}

WrapArgs ==
    [cell : {"2.3.8"}, names : Listings(WrapPool, MaxListLen),
     range : WrapRanges]

InitWrap == FreshKernel /\ arg \in WrapArgs

SpecWrap == InitWrap /\ [][NextRange]_vars

\* C16: the VIIRS range match compares the 4-character HHMM substring
\* alone, without the date: whenever start_time > end_time as strings (a
\* window that wraps past midnight, "2359" to "0001") the result is empty
\* whatever the listing, and two files with the same HHMM are both selected
\* or both rejected whatever the dates in their start-time tokens.
C16_TimeOfDayOnly ==
    (Found /\ last = "2.3.8") =>
        /\ ~LexLe(start_time, end_time) => matches = <<>>
        /\ \A i, j \in 1..Len(files) :
              \A d, e \in ViirsDates : \A t \in WrapTimes :
                 (/\ files[i] = files_path \o <<"/">> \o ViirsName(d, t, <<"1","9","0">>)
                  /\ files[j] = files_path \o <<"/">> \o ViirsName(e, t, <<"1","9","0">>))
                     => (InMatches(files[i]) <=> InMatches(files[j]))

\* The window 2359..0001 has been matched against a listing that holds the
\* 2359 file of one day and the 0001 file of the next, and nothing is
\* selected.
C16_Witness ==
    /\ Found /\ last = "2.3.8"
    /\ start_time = <<"2","3","5","9">> /\ end_time = <<"0","0","0","1">>
    /\ \E i, j \in 1..Len(files) :
          /\ files[i] = files_path \o <<"/">>
                            \o ViirsName(<<"2","0","2","2","1","0","1","6">>, <<"2","3","5","9">>, <<"1","9","0">>)
          /\ files[j] = files_path \o <<"/">>
                            \o ViirsName(<<"2","0","2","2","1","0","1","7">>, <<"0","0","0","1">>, <<"1","9","0">>)
    /\ matches = <<>>

\* Two files of different days with the same HHMM are both selected.
C16_SameTimeTwoDays ==
    /\ Found /\ last = "2.3.8"
    /\ \E i, j \in 1..Len(files) :
          /\ files[i] = files_path \o <<"/">>
                            \o ViirsName(<<"2","0","2","2","1","0","1","6">>, <<"0","0","0","1">>, <<"1","9","0">>)
          /\ files[j] = files_path \o <<"/">>
                            \o ViirsName(<<"2","0","2","2","1","0","1","7">>, <<"0","0","0","1">>, <<"1","9","0">>)
          /\ InMatches(files[i]) /\ InMatches(files[j])

-----------------------------------------------------------------------------
(* The three extractions side by side.  A JPSS listing is drawn with a     *)
(* 7-character time T: Step 2.3.4 is run on it with T, Step 2.3.8 with     *)
(* T[0:4] as both ends of the range, Step 2.2.4 with T[0:4].  An ABI       *)
(* listing is drawn with a 4-character time: Step 2.3.8 is run on it with  *)
(* that time as both ends.  files being the one listing of the kernel,     *)
(* each find cell works on whatever listing cell ran last.                 *)

FamilyDates == {<<"2","0","2","2","1","0","1","1">>, <<"2","0","2","2","1","0","1","6">>}
FamilyTimes == {<<"1","1","1","1">>, <<"2","1","1","6">>}
FamilySeconds == {<<"1","9","0">>, <<"5","1","0">>}
JpssPool ==
    {ViirsName(d, t, sst) :
        d \in FamilyDates, t \in FamilyTimes, sst \in FamilySeconds}

AbiFamilyTimes == {<<"2","2","2","2">>, <<"1","1","1","1">>, <<"2","0","3","0">>}
AbiFamilyPool == {AbiName(sec, t) : sec \in Sectors, t \in AbiFamilyTimes}

FamilyArgs ==
    [cell : {"JPSS"}, names : Listings(JpssPool, MaxListLen),
     t : {t \o sst : t \in FamilyTimes, sst \in FamilySeconds}]
    \cup
    [cell : {"ABI"}, names : Listings(AbiFamilyPool, MaxListLen),
     t : AbiFamilyTimes]

InitFamily == FreshKernel /\ arg \in FamilyArgs

ListJpss ==
    /\ last = "none" /\ arg.cell = "JPSS"
    /\ Cell_2_3_7(2022, 10, 16, LsOk(arg.names))
    /\ UNCHANGED runs

ExactOnJpss ==
    /\ last = "2.3.7" /\ arg.cell = "JPSS"
    /\ \E sz \in SizeOutcomes : Cell_2_3_4(arg.t, sz)
    /\ UNCHANGED runs

RangeOnJpss ==
    /\ last = "2.3.4" /\ arg.cell = "JPSS"
    /\ \E sz \in SizeOutcomes :
          Cell_2_3_8(Slice(arg.t, 0, 4), Slice(arg.t, 0, 4), sz)
    /\ UNCHANGED runs

AbiOnJpss ==
    /\ last = "2.3.8" /\ arg.cell = "JPSS"
    /\ \E sz \in SizeOutcomes : Cell_2_2_4(Slice(arg.t, 0, 4), <<"M","C","M","I","P","M","2">>, sz)
    /\ UNCHANGED runs

ListAbiFamily ==
    /\ last = "none" /\ arg.cell = "ABI"
    /\ Cell_2_2_3(2022, 336, 20, LsOk(arg.names))
    /\ UNCHANGED runs

RangeOnAbi ==
    /\ last = "2.2.3" /\ arg.cell = "ABI"
    /\ \E sz \in SizeOutcomes : Cell_2_3_8(arg.t, arg.t, sz)
    /\ UNCHANGED runs

NextFamily ==
    \/ ListJpss \/ ExactOnJpss \/ RangeOnJpss \/ AbiOnJpss
    \/ ListAbiFamily \/ RangeOnAbi

SpecFamily == InitFamily /\ [][NextFamily]_vars

\* Every file that Step 2.3.4 selected for the 7-character time T is
\* selected by Step 2.3.8 run next on the same listing with T[0:4] as both
\* ends of the range.
ExactWithinRange ==
    (/\ last = "2.3.4" /\ last' = "2.3.8"
     /\ error \in SizeOutcomes /\ error' \in SizeOutcomes
     /\ files' = files
     /\ start_time' = SubSeq(observation_time, 1, 4)
     /\ end_time' = start_time')
        => \A k \in 1..Len(matches) :
              \E j \in 1..Len(matches') : matches'[j] = matches[k]

\* Step 2.2.4 has been run on a JPSS listing all of whose files start at
\* the HHMM it looks for: were the ABI slice never to yield a JPSS file's
\* HHMM, the left operand would be false for each and the cell would end
\* with no match and no error.
AbiSliceMissesJpss ==
    (/\ last = "2.2.4" /\ arg.cell = "JPSS"
     /\ \A i \in 1..Len(files) :
           \E d \in FamilyDates, sst \in FamilySeconds :
              files[i] = files_path \o <<"/">>
                             \o ViirsName(d, observation_time, sst))
        => (error = "none" /\ matches = <<>>)

\* Step 2.3.8 has been run on an ABI listing with one HHMM as both ends:
\* were the JPSS slice never to yield an ABI file's HHMM, no file starting
\* at that HHMM would be selected.
JpssSliceMissesAbi ==
    (last = "2.3.8" /\ arg.cell = "ABI") =>
        \A i \in 1..Len(files) : \A sec \in Sectors :
            files[i] = data_path \o <<"/">> \o AbiName(sec, start_time)
                => ~InMatches(files[i])

\* What the ABI slice cuts from the token of a JPSS file of date d and
\* time t: the last digit of the date and the first three of the time.
\* Step 2.2.4 raises IndexError exactly when that is the time looked for
\* (a JPSS name has fewer than three '-' pieces), and finds nothing
\* otherwise.
AbiSliceOnJpss ==
    (last = "2.2.4" /\ arg.cell = "JPSS") =>
        /\ error = "IndexError"
              <=> \E i \in 1..Len(files) :
                     \E d \in FamilyDates, t \in FamilyTimes,
                        sst \in FamilySeconds :
                        /\ files[i] = files_path \o <<"/">> \o ViirsName(d, t, sst)
                        /\ <<d[8], t[1], t[2], t[3]>> = observation_time
        /\ error # "IndexError" => (error = "none" /\ matches = <<>>)

\* What the JPSS slice cuts from the token of an ABI file of time t, whose
\* seconds begin with 2: the last three digits of the time and that 2.
JpssSliceOnAbi ==
    (last = "2.3.8" /\ arg.cell = "ABI") =>
        \A i \in 1..Len(files) : \A sec \in Sectors : \A t \in AbiFamilyTimes :
            files[i] = data_path \o <<"/">> \o AbiName(sec, t)
                => (InMatches(files[i])
                      <=> <<t[2], t[3], t[4], "2">> = start_time)

\* C17 as stated: the JPSS extractions are consistent with each other and
\* distinct from the ABI one: the slice [9:13] is the prefix of the slice
\* [9:16] of the same token, so every file selected by the exact match on
\* the 7-character time T is selected by the range match [T[0:4], T[0:4]];
\* and the ABI slice [8:12] of a JPSS token, or the JPSS slice of an ABI
\* token, does not yield that file's HHMM.
C17_SlicesNeverCoincide ==
    /\ [][ExactWithinRange]_vars
    /\ [](AbiSliceMissesJpss /\ JpssSliceMissesAbi)

\* C17, amended: every file selected by the exact match on the 7-character
\* time T is selected by the range match [T[0:4], T[0:4]]; the ABI slice
\* [8:12] of a JPSS token yields the last digit of the date and the first
\* three digits of HHMM, the JPSS slice [9:13] of an ABI token the last
\* three digits of HHMM and the first digit of the seconds: neither is the
\* file's HHMM, except when those digits coincide (a JPSS file of a day
\* ending in 1 that starts at 11:11, an ABI file that starts at 22:22:2x).
C17_SlicesShifted ==
    /\ [][ExactWithinRange]_vars
    /\ [](AbiSliceOnJpss /\ JpssSliceOnAbi)

\* The range match has been run after the exact match and has selected
\* two files: one that starts at T, which the exact match had selected,
\* and one that starts in the same minute at other seconds.
C17_Witness ==
    /\ last = "2.3.8" /\ arg.cell = "JPSS" /\ error = "none"
    /\ observation_time = arg.t
    /\ start_time = SubSeq(arg.t, 1, 4) /\ end_time = start_time
    /\ Len(matches) = 2
    /\ \E k \in 1..2 :
          /\ Slice(Split(BaseName(matches[k]), "_")[4], 9, 16) = arg.t
          /\ Slice(Split(BaseName(matches[3 - k]), "_")[4], 9, 16) # arg.t

-----------------------------------------------------------------------------
(* The session on the S3 buckets (Steps 2.2 and 2.3): the listing, find    *)
(* and download cells, run in any order, any number of times up to         *)
(* MaxRuns, with the literals of the tutorial.  The origin answers each    *)
(* fs.ls with a listing or a failure, and may fail any fs.size or fs.get.  *)

MaxRuns == 5

AbiListings ==
    {<<>>, <<AbiName(<<"1">>, <<"2","0","3","0">>), AbiName(<<"2">>, <<"2","0","3","0">>)>>}
NucapsListings ==
    {<<>>, <<NucapsName(<<"1","9","0","7","2","1","0">>), NucapsName(<<"1","9","0","7","5","1","0">>)>>}
ViirsListings ==
    {<<>>, <<ViirsName(<<"2","0","2","2","1","0","1","6">>, <<"2","1","1","5">>, <<"1","9","0">>),
             ViirsName(<<"2","0","2","2","1","0","1","6">>, <<"2","1","1","6">>, <<"1","9","0">>),
             ViirsName(<<"2","0","2","2","1","0","1","6">>, <<"2","1","1","8">>, <<"1","9","0">>)>>}

LsOutcomes(listings) == {LsOk(l) : l \in listings} \cup LsFailures

Init == FreshKernel /\ arg = NoArg

Tick == runs < MaxRuns /\ runs' = runs + 1

Run_2_2_3 ==
    Tick /\ \E ls \in LsOutcomes(AbiListings) : Cell_2_2_3(2022, 336, 20, ls)

Run_2_2_4 ==
    Tick /\ \E sz \in SizeOutcomes : Cell_2_2_4(<<"2","0","3","0">>, <<"M","C","M","I","P","M","2">>, sz)

Run_2_2_5 ==
    Tick /\ \E n \in 0..Len(matches), partial \in BOOLEAN :
                Cell_Get("2.2.5", n, partial)

Run_2_3_3 ==
    Tick /\ \E ls \in LsOutcomes(NucapsListings) :
                Cell_2_3_3(2022, 11, 29, ls)

Run_2_3_4 ==
    Tick /\ \E sz \in SizeOutcomes : Cell_2_3_4(<<"1","9","0","7","5","1","0">>, sz)

Run_2_3_5 ==
    Tick /\ \E n \in 0..Len(matches), partial \in BOOLEAN :
                Cell_Get("2.3.5", n, partial)

Run_2_3_7 ==
    Tick /\ \E ls \in LsOutcomes(ViirsListings) :
                Cell_2_3_7(2022, 10, 16, ls)

Run_2_3_8 ==
    Tick /\ \E sz \in SizeOutcomes : Cell_2_3_8(<<"2","1","1","6">>, <<"2","1","1","9">>, sz)

Run_2_3_9 ==
    Tick /\ \E n \in 0..Len(matches), partial \in BOOLEAN :
                Cell_Get("2.3.9", n, partial)

Next ==
    \/ Run_2_2_3 \/ Run_2_2_4 \/ Run_2_2_5
    \/ Run_2_3_3 \/ Run_2_3_4 \/ Run_2_3_5
    \/ Run_2_3_7 \/ Run_2_3_8 \/ Run_2_3_9

Spec == Init /\ [][Next]_vars

\* The listing cell whose files a find cell is written for.
ListCellOf(c) ==
    CASE c = "2.2.4" -> "2.2.3"
      [] c = "2.3.4" -> "2.3.3"
      [] c = "2.3.8" -> "2.3.7"

\* C10: a match that hits nothing returns an empty sequence and raises no
\* error, and that outcome is distinguishable from a failed listing: a
\* failed Lister call never leaves the selector with an empty or stale
\* listing that the Match Selector turns into a normal empty result.
C10_EmptyNotAfterFailedListing ==
    /\ (last \in FindCells /\ "files" \in namespace /\ error # "IndexError"
          /\ \A i \in 1..Len(files) : ~Holds(files[i]))
          => (matches = <<>> /\ error = "none")
    /\ (last \in FindCells /\ error = "none" /\ matches = <<>>)
          => listed[ListCellOf(last)] # "failed"

\* The find cell whose matches a download cell is written for.
FindCellOf(c) ==
    CASE c = "2.2.5" -> "2.2.4"
      [] c = "2.3.5" -> "2.3.4"
      [] c = "2.3.9" -> "2.3.8"

\* The keys whose fs.get returned in the download cell run last, in order.
Retrieved == Select([k \in 1..Len(calls) |-> calls[k].key],
                    [k \in 1..Len(calls) |-> calls[k].ev = "done"])

\* The download cell run last worked on the matches of its own find cell,
\* computed from the listing of its own listing cell.
OwnMatches ==
    /\ last \in GetCells
    /\ "matches" \in namespace
    /\ origin.find = FindCellOf(last)
    /\ origin.listing = ListCellOf(FindCellOf(last))

\* C11: a failed listing or fetch aborts that selector's resolution: after
\* a failure of fs.ls or fs.get no further match of that selector is
\* retrieved, the failure reaches the caller as an error and not as a
\* complete result, and no call of fs.ls or fs.get is made a second time.
C11_FailureAborts ==
    /\ \A k \in 1..Len(calls) : calls[k].ev = "raised" => k = Len(calls)
    /\ (\E k \in 1..Len(calls) : calls[k].ev = "raised") => error = "OSError"
    /\ \A j, k \in 1..Len(calls) :
          (j < k /\ calls[j].ev = "start" /\ calls[k].ev = "start")
              => calls[j].key # calls[k].key
    /\ (OwnMatches /\ listed[ListCellOf(FindCellOf(last))] = "failed")
          => Retrieved = <<>>

\* The half of C11 that is about fs.get alone.
C11_FetchAborts ==
    /\ \A k \in 1..Len(calls) : calls[k].ev = "raised" => k = Len(calls)
    /\ (\E k \in 1..Len(calls) : calls[k].ev = "raised") => error = "OSError"
    /\ \A j, k \in 1..Len(calls) :
          (j < k /\ calls[j].ev = "start" /\ calls[k].ev = "start")
              => calls[j].key # calls[k].key

\* The number of calls of fs.get in progress after the first k events.
InProgress(k) ==
    Cardinality({j \in 1..k : calls[j].ev = "start"})
        - Cardinality({j \in 1..k : calls[j].ev # "start"})

\* The keys whose fs.get was started in the download cell run last, in order.
Requested == Select([k \in 1..Len(calls) |-> calls[k].key],
                    [k \in 1..Len(calls) |-> calls[k].ev = "start"])

\* One call at a time, in the order of matches: a call starts when none is
\* in progress, the event after a start is the end of that call, and the
\* keys requested are the first matches, in their order.
OneAtATime ==
    /\ \A k \in 1..Len(calls) : InProgress(k) \in {0, 1}
    /\ \A k \in 1..Len(calls) :
          calls[k].ev = "start"
              => /\ InProgress(k - 1) = 0
                 /\ k < Len(calls)
                 /\ calls[k + 1].key = calls[k].key
                 /\ calls[k + 1].ev # "start"
    /\ Len(Requested) <= Len(matches)
    /\ Requested = SubSeq(matches, 1, Len(Requested))

\* C12 as stated: each match of a selector is retrieved one at a time in
\* listing order: the retrieval of match i+1 starts only after that of
\* match i has completed, no two retrievals are in progress at the same
\* time, and every match is retrieved exactly once.
C12_EveryMatchOnce ==
    (last \in GetCells /\ "matches" \in namespace)
        => (OneAtATime /\ Retrieved = matches)

\* C12, amended: each match of a selector is retrieved one at a time in
\* listing order, the retrieval of match i+1 starting only after that of
\* match i has completed and no two being in progress at the same time;
\* every match is requested at most once, and retrieved exactly once when
\* no call of fs.get raises: a call that raises ends the loop, and the
\* matches from it on are not retrieved.
C12_OneAtATimeUntilFailure ==
    (last \in GetCells /\ "matches" \in namespace)
        => /\ OneAtATime
           /\ Len(Retrieved) <= Len(matches)
           /\ Retrieved = SubSeq(matches, 1, Len(Retrieved))
           /\ error = "none" => Retrieved = matches
           /\ error # "none"
                 => /\ Len(Retrieved) < Len(matches)
                    /\ Requested = SubSeq(matches, 1, Len(Retrieved) + 1)

\* Step 2.3.9 has retrieved the two matches of the range, one after the
\* other.
C12_Witness ==
    /\ last = "2.3.9" /\ error = "none"
    /\ OwnMatches
    /\ Len(matches) = 2 /\ matches[1] # matches[2]
    /\ Retrieved = matches
    /\ Len(calls) = 4

\* C13: no state is shared between queries: each download step (2.2.5,
\* 2.3.5, 2.3.9) retrieves exactly the matches computed from its own
\* selector's listing, whatever list and find steps were run before it and
\* in whatever order.
C13_OwnSelectorOnly ==
    (last \in GetCells /\ Retrieved # <<>>) => OwnMatches

\* What a download step does retrieve: the first elements of the one global
\* matches, whichever find cell assigned it from whichever listing.
C13_RetrievesGlobalMatches ==
    (last \in GetCells /\ "matches" \in namespace)
        => /\ Len(Retrieved) <= Len(matches)
           /\ Retrieved = SubSeq(matches, 1, Len(Retrieved))
           /\ origin.find \in FindCells
           /\ origin.listing \in ListCells

-----------------------------------------------------------------------------
(* The session on the web archive (Step 2.4).  It shares only the          *)
(* destination directory with the S3 session, and writes a file of its own *)
(* there.                                                                  *)

Web_2_4_1 == Tick /\ \E req \in Requests : Cell_2_4_1(req)

Web_2_4_2 == Tick /\ Cell_2_4_2

Web_2_4_3 == Tick /\ Cell_2_4_3

Web_2_4_4 == Tick /\ Cell_2_4_4

NextWeb == Web_2_4_1 \/ Web_2_4_2 \/ Web_2_4_3 \/ Web_2_4_4

SpecWeb == Init /\ [][NextWeb]_vars

\* C3: for the web archive the existence of the file is confirmed (status
\* 200) before it is downloaded: the probe yields NotFound when the
\* resource is absent, and the response body is never transferred, nor the
\* local destination file created or overwritten, unless the status was
\* 200.
C3_DownloadOnlyAfter200 ==
    /\ ("response" \in namespace /\ response.status_code # 200)
          => response.content = <<>>
    /\ PathJoin(directory_path, AodFileName) \in DOMAIN disk
          => ("response" \in namespace /\ response.status_code = 200)

\* The same, of the destination file alone.
C3_FileOnlyAfter200 ==
    PathJoin(directory_path, AodFileName) \in DOMAIN disk
        => ("response" \in namespace /\ response.status_code = 200)

=============================================================================
